---- MODULE Spec2Model ----
(***************************************************************************)
(* Stock of the Day (src/App.py): the /stock request pipeline and the      *)
(* functions it is built from.                                             *)
(*                                                                         *)
(* Python values are modelled as follows.                                  *)
(*   - str that the code analyses (the discovery text, a symbol): a        *)
(*     sequence of one-character strings.                                  *)
(*   - str that the code only passes on (a headline, the analysis text,    *)
(*     a log message): a TLA+ string.                                      *)
(*   - Optional[T]: None is <<>>, a present value v is <<v>>.              *)
(*   - float: an integer number of hundredths (12.5 is 1250).              *)
(*   - the end of a call: a record with kind "return" (and value) or       *)
(*     kind "raise" (and exc), plus the messages it logged.                *)
(***************************************************************************)
EXTENDS Integers, Sequences, FiniteSets, TLC

VARIABLES
    pc,                \* position of the /stock handler
    trace,             \* the calls the handler has made, in order
    ai_discovery,      \* stock(): ai_discovery
    stock_symbol,      \* stock(): stock_symbol
    price_data,        \* analyze_single_stock(): price_data
    stock_data,        \* stock(): stock_data
    analysis_prompt,   \* stock(): analysis_prompt
    ai_recommendation, \* stock(): ai_recommendation
    response,          \* what the end user receives
    log,               \* logger.error / logger.info messages, in order
    call,              \* a direct call of one function: its name and arguments
    outcome            \* how that call ended

vars == <<pc, trace, ai_discovery, stock_symbol, price_data, stock_data, analysis_prompt,
          ai_recommendation, response, log, call, outcome>>

request_vars == <<pc, trace, ai_discovery, stock_symbol, price_data, stock_data,
                  analysis_prompt, ai_recommendation, response, log>>

call_vars == <<call, outcome>>

----------------------------------------------------------------------------
(* Bounds of the model *)

MaxLen == 6        \* longest enumerated input text of extract_stock_symbol
MaxCents == 12     \* enumerated prices run over 0 .. MaxCents hundredths
MaxArticles == 4   \* longest enumerated "articles" list of the news provider

----------------------------------------------------------------------------
(* Python values *)

None == <<>>

Some(v) == <<v>>

Return(v, msgs) == [kind |-> "return", value |-> v, log |-> msgs]

Raise(e, msgs) == [kind |-> "raise", exc |-> e, log |-> msgs]

RECURSIVE Str(_)
\* str of a sequence of characters
Str(chars) == IF chars = <<>> THEN "" ELSE Head(chars) \o Str(Tail(chars))

RECURSIVE Join(_, _)
\* sep.join(strs)
Join(sep, strs) ==
    IF strs = <<>> THEN ""
    ELSE IF Len(strs) = 1 THEN strs[1]
    ELSE strs[1] \o sep \o Join(sep, Tail(strs))

\* strs[:n]
Take(strs, n) == SubSeq(strs, 1, IF Len(strs) < n THEN Len(strs) ELSE n)

----------------------------------------------------------------------------
(* extract_stock_symbol: re.findall(r'\b[A-Z]{1,5}\b', text), the stoplist *)
(* and the length filter                                                   *)

UpperCase == {"A", "B", "C", "D", "E", "F", "G", "H", "I", "J", "K", "L", "M",
              "N", "O", "P", "Q", "R", "S", "T", "U", "V", "W", "X", "Y", "Z"}

LowerCase == {"a", "b", "c", "d", "e", "f", "g", "h", "i", "j", "k", "l", "m",
              "n", "o", "p", "q", "r", "s", "t", "u", "v", "w", "x", "y", "z"}

Digits == {"0", "1", "2", "3", "4", "5", "6", "7", "8", "9"}

\* \w of the re module
WordChars == UpperCase \cup LowerCase \cup Digits \cup {"_"}

MinRepeat == 1

MaxRepeat == 5

MinSymbolLen == 2

common_words ==
    { <<"T", "H", "E">>, <<"A", "N", "D">>, <<"F", "O", "R">>,
      <<"A", "R", "E">>, <<"Y", "O", "U">>, <<"A", "L", "L">>,
      <<"N", "E", "W">>, <<"T", "O", "P">>, <<"B", "E", "S", "T">>,
      <<"H", "I", "G", "H">>, <<"L", "O", "W">> }

\* \b between text[i-1] and text[i] (i = 1 is the start, Len+1 the end)
WordBoundary(text, i) ==
    ((i > 1) /\ (text[i - 1] \in WordChars))
        # ((i <= Len(text)) /\ (text[i] \in WordChars))

\* The lengths k for which \b[A-Z]{k}\b matches at position i
MatchLens(text, i) ==
    { k \in MinRepeat..MaxRepeat :
        /\ WordBoundary(text, i)
        /\ i + k - 1 <= Len(text)
        /\ \A j \in i..(i + k - 1) : text[j] \in UpperCase
        /\ WordBoundary(text, i + k) }

\* The match the engine reports at position i: the greedy one; 0 for none
MatchAt(text, i) ==
    LET ks == MatchLens(text, i)
    IN IF ks = {} THEN 0 ELSE CHOOSE k \in ks : \A m \in ks : m <= k

RECURSIVE findall(_, _)
\* re.findall from position i on: the non-overlapping matches, left to right
findall(text, i) ==
    IF i > Len(text) THEN <<>>
    ELSE LET k == MatchAt(text, i)
         IN IF k = 0 THEN findall(text, i + 1)
            ELSE <<SubSeq(text, i, i + k - 1)>> \o findall(text, i + k)

\* KeepSymbol without the stoplist
KeepSymbolAnyWord(s) == Len(s) >= MinSymbolLen

KeepSymbol(s) == s \notin common_words /\ Len(s) >= MinSymbolLen

\* extract_stock_symbol taking the last surviving match
extract_last_symbol(text) ==
    LET symbols == SelectSeq(findall(text, 1), KeepSymbol)
    IN IF symbols # <<>> THEN Some(symbols[Len(symbols)]) ELSE None

extract_stock_symbol(text) ==
    LET symbols == SelectSeq(findall(text, 1), KeepSymbol)
    IN IF symbols # <<>> THEN Some(symbols[1]) ELSE None

----------------------------------------------------------------------------
(* get_stock_price_data                                                    *)

\* bool(x) of an Optional[float]: None and 0 are falsy
Truthy(o) == o # None /\ o[1] # 0

\* n / d rounded to the nearest integer, ties to even (d > 0)
RoundDiv(n, d) ==
    LET q == n \div d
        r == n % d
    IN IF 2 * r < d THEN q
       ELSE IF 2 * r > d THEN q + 1
       ELSE IF q % 2 = 0 THEN q ELSE q + 1

PercentScale == 100

RoundScale == 100

\* round((current - previous) / previous * 100, 2), in hundredths
ChangePercentage(current, previous) ==
    RoundDiv((current - previous) * PercentScale * RoundScale, previous)

NoQuote == [price |-> None, change_percentage |-> None]

\* provider: what yf.Ticker(ticker).info gives, or the failure of the lookup
get_stock_price_data(provider) ==
    IF provider.kind = "error"
    THEN Return(NoQuote, <<"Failed to fetch stock data">>)
    ELSE LET current_price == provider.regularMarketPrice
             previous_close == provider.regularMarketPreviousClose
             change_percentage ==
                 IF Truthy(current_price) /\ Truthy(previous_close)
                        /\ previous_close[1] # 0
                 THEN Some(ChangePercentage(current_price[1], previous_close[1]))
                 ELSE None
         IN Return([price |-> current_price,
                    change_percentage |-> change_percentage], <<>>)

----------------------------------------------------------------------------
(* get_news_headlines                                                      *)

DefaultMaxArticles == 3

\* What requests.get, raise_for_status and response.json raise: subclasses
\* of requests.RequestException, all of them
RequestExceptions == {"Timeout", "ConnectionError", "HTTPError", "JSONDecodeError"}

\* [article["title"] for article in articles]: the titles, or the KeyError
\* of the first article without one
Titles(articles) ==
    IF \E i \in 1..Len(articles) : ~articles[i].has_title
    THEN Raise("KeyError", <<>>)
    ELSE Return([i \in 1..Len(articles) |-> articles[i].title], <<>>)

\* resp: how the HTTP exchange and the decoding of the body ended
get_news_headlines(resp, max_articles) ==
    IF resp.kind = "exception"
    THEN IF resp.exc \in RequestExceptions
         THEN Return(<<>>, <<"Failed to fetch news">>)
         ELSE Raise(resp.exc, <<>>)
    ELSE LET data == resp.data
         IN IF data.type # "dict" THEN Raise("AttributeError", <<>>)
            ELSE IF ~data.has_articles THEN Titles(Take(<<>>, max_articles))
            ELSE IF data.articles.type # "list" THEN Raise("TypeError", <<>>)
            ELSE Titles(Take(data.articles.items, max_articles))

----------------------------------------------------------------------------
(* analyze_single_stock                                                    *)

\* The dictionary analyze_single_stock returns
Snapshot(symbol, quote, news_headlines) ==
    [symbol |-> symbol,
     price |-> quote.price,
     change_percentage |-> quote.change_percentage,
     news |-> news_headlines]

----------------------------------------------------------------------------
(* build_analysis_prompt                                                   *)

RECURSIVE Decimal(_)
\* str of a natural number
Decimal(n) == IF n < 10 THEN ToString(n) ELSE Decimal(n \div 10) \o ToString(n % 10)

\* str of a float of h hundredths: the shortest decimal that reads back
FormatFloat(h) ==
    LET a == IF h < 0 THEN 0 - h ELSE h
        whole == a \div 100
        frac == a % 100
        digits == IF frac % 10 = 0 THEN Decimal(frac \div 10)
                  ELSE IF frac < 10 THEN "0" \o Decimal(frac)
                  ELSE Decimal(frac)
    IN (IF h < 0 THEN "-" ELSE "") \o Decimal(whole) \o "." \o digits

price_str(snapshot) ==
    IF Truthy(snapshot.price)
    THEN "$" \o FormatFloat(snapshot.price[1]) ELSE "N/A"

change_str(snapshot) ==
    IF snapshot.change_percentage # None
    THEN FormatFloat(snapshot.change_percentage[1]) \o "%" ELSE "N/A"

news_str(snapshot) ==
    IF snapshot.news # <<>> THEN Join("; ", snapshot.news)
    ELSE "No recent news"

\* The prompt, as its lines
build_analysis_prompt(snapshot) ==
    << "You are a top stock analyst. Based on the following discovered small-cap stock with its current price, daily change, and recent news headlines, provide a detailed analysis of this stock's potential for significant growth:",
       "",
       "Stock: " \o Str(snapshot.symbol),
       "Current Price: " \o price_str(snapshot),
       "Daily Change: " \o change_str(snapshot),
       "Recent News: " \o news_str(snapshot),
       "",
       "Provide a comprehensive analysis including:",
       "1. Why this stock shows promise",
       "2. Key factors driving its potential",
       "3. Risk considerations",
       "4. Your overall recommendation" >>

----------------------------------------------------------------------------
(* get_ai_stock_discovery and get_ai_recommendation                        *)

\* llm: how client.chat.completions.create ended: an error, or the
\* message content of the first choice (None or a str)
get_ai_stock_discovery(llm) ==
    IF llm.kind = "error"
    THEN Raise([type |-> "APIError", text |-> llm.text],
               <<"Failed to get AI stock discovery: " \o llm.text>>)
    ELSE Return(llm.content, <<>>)

get_ai_recommendation(prompt, llm) ==
    IF llm.kind = "error"
    THEN Raise([type |-> "APIError", text |-> llm.text],
               <<"Failed to get AI recommendation: " \o llm.text>>)
    ELSE Return(llm.content, <<>>)

----------------------------------------------------------------------------
(* A direct call of one function                                           *)

Alphabet == {"A", "L", "x", " "}

Texts == UNION { [1..n -> Alphabet] : n \in 0..MaxLen }

ExampleNVDA ==
    <<"O", "u", "r", " ", "t", "o", "p", " ", "p", "i", "c", "k", " ", "i",
      "s", " ", "N", "V", "D", "A", ",", " ", "a", " ", "s", "t", "r", "o",
      "n", "g", " ", "b", "u", "y">>

ExampleStoplist ==
    <<"T", "H", "E", " ", "A", "N", "D", " ", "F", "O", "R", " ", "A", "R",
      "E">>

ExampleGRPH ==
    <<".", ".", ".", "G", "R", "P", "H", " ", "(", "G", "r", "a", "p", "h",
      "e", "x", " ", "I", "n", "c", ")", ".", ".", ".">>

\* "A ALL AL LA": a single letter, a stoplisted word and two candidates
ExampleMixed == <<"A", " ", "A", "L", "L", " ", "A", "L", " ", "L", "A">>

ExampleTexts == {ExampleNVDA, ExampleStoplist, ExampleGRPH, ExampleMixed}

ExtractCalls ==
    { [fn |-> "extract_stock_symbol", text |-> t] : t \in Texts \cup ExampleTexts }

ExamplePrices == {1000, 1250, 9000, 10000}

Prices == 0..MaxCents \cup ExamplePrices

OptPrices == {None} \cup { Some(p) : p \in Prices }

QuoteProviders ==
    { [kind |-> "error"] } \cup
    { [kind |-> "info", regularMarketPrice |-> c, regularMarketPreviousClose |-> p] :
        c \in OptPrices, p \in OptPrices }

QuoteCalls == { [fn |-> "get_stock_price_data", provider |-> q] : q \in QuoteProviders }

Articles ==
    { [has_title |-> TRUE, title |-> "Graphex wins contract"],
      [has_title |-> TRUE, title |-> "Shares jump"],
      [has_title |-> FALSE] }

ArticleLists == UNION { [1..n -> Articles] : n \in 0..MaxArticles }

JsonBodies ==
    { [type |-> "list"],
      [type |-> "dict", has_articles |-> FALSE],
      [type |-> "dict", has_articles |-> TRUE, articles |-> [type |-> "null"]],
      [type |-> "dict", has_articles |-> TRUE, articles |-> [type |-> "int"]] } \cup
    { [type |-> "dict", has_articles |-> TRUE,
       articles |-> [type |-> "list", items |-> l]] : l \in ArticleLists }

NewsResponses ==
    { [kind |-> "exception", exc |-> e] : e \in RequestExceptions }
    \cup { [kind |-> "json", data |-> d] : d \in JsonBodies }

NewsCalls ==
    { [fn |-> "get_news_headlines", resp |-> r, max_articles |-> DefaultMaxArticles] :
        r \in NewsResponses }

\* The snapshots analyze_single_stock can build
Snapshots ==
    { Snapshot(SubSeq(ExampleGRPH, 4, 7), get_stock_price_data(q).value, o.value) :
        q \in QuoteProviders,
        o \in { x \in { get_news_headlines(r, DefaultMaxArticles) : r \in NewsResponses } :
                  x.kind = "return" } }

PromptCalls == { [fn |-> "build_analysis_prompt", stock_data |-> d] : d \in Snapshots }

Pending == [kind |-> "pending"]

Idle == "idle"

InitCall ==
    /\ call \in ExtractCalls \cup QuoteCalls \cup NewsCalls \cup PromptCalls
    /\ outcome = Pending
    /\ pc = Idle
    /\ trace = <<>>
    /\ ai_discovery = None
    /\ stock_symbol = None
    /\ price_data = None
    /\ stock_data = None
    /\ analysis_prompt = None
    /\ ai_recommendation = None
    /\ response = None
    /\ log = <<>>

ExtractStockSymbol ==
    /\ call.fn = "extract_stock_symbol"
    /\ outcome = Pending
    /\ outcome' = Return(extract_stock_symbol(call.text), <<>>)
    /\ UNCHANGED <<call, request_vars>>

GetStockPriceData ==
    /\ call.fn = "get_stock_price_data"
    /\ outcome = Pending
    /\ outcome' = get_stock_price_data(call.provider)
    /\ UNCHANGED <<call, request_vars>>

GetNewsHeadlines ==
    /\ call.fn = "get_news_headlines"
    /\ outcome = Pending
    /\ outcome' = get_news_headlines(call.resp, call.max_articles)
    /\ UNCHANGED <<call, request_vars>>

BuildAnalysisPrompt ==
    /\ call.fn = "build_analysis_prompt"
    /\ outcome = Pending
    /\ outcome' = Return(build_analysis_prompt(call.stock_data), <<>>)
    /\ UNCHANGED <<call, request_vars>>

NextCall ==
    \/ ExtractStockSymbol
    \/ GetStockPriceData
    \/ GetNewsHeadlines
    \/ BuildAnalysisPrompt

SpecCall == InitCall /\ [][NextCall]_vars

----------------------------------------------------------------------------
(* stock(): the /stock handler                                             *)

HttpError == 500

HttpOk == 200

GenericDescription == "Failed to generate stock recommendation"

\* abort(500, description=d): the HTTPException it raises
Abort(d) ==
    [type |-> "HTTPException",
     text |-> "500 Internal Server Error: " \o d,
     description |-> d]

\* The classes "except Exception" catches: werkzeug's HTTPException is one
ExceptionClasses == {"HTTPException", "APIError"}

\* An except clause that lets abort()'s HTTPException through
CatchesButHTTP(e) == e.type \in ExceptionClasses \ {"HTTPException"}

Catches(e) == e.type \in ExceptionClasses

\* What the framework answers when e leaves the handler
ErrorResponse(e) ==
    [status |-> HttpError,
     description |-> IF e.type = "HTTPException" THEN e.description
                     ELSE "Internal Server Error"]

\* render_template("stock.html", ai_pick=full_analysis)
Page(full_analysis) == [status |-> HttpOk, ai_pick |-> full_analysis]

\* full_analysis, as its lines
FullAnalysis(discovery, recommendation) ==
    <<"AI Stock Discovery:", Str(discovery), "", "Detailed Analysis:", recommendation>>

Called(fn, args, o) ==
    [fn |-> fn, args |-> args,
     result |-> IF o.kind = "raise" THEN [kind |-> "raise", exc |-> o.exc]
                ELSE [kind |-> "return", value |-> o.value]]

\* An exception e raised inside the try block of stock(), after the calls
\* and messages so far: the except clause logs it and aborts
Except(e, calls, msgs) ==
    /\ pc' = "done"
    /\ trace' = calls
    /\ IF Catches(e)
       THEN /\ log' = msgs \o <<"Error generating stock recommendation: " \o e.text>>
            /\ response' = Some(ErrorResponse(Abort(GenericDescription)))
       ELSE /\ log' = msgs
            /\ response' = Some(ErrorResponse(e))

DiscoveryTexts == {<<>>, ExampleStoplist, ExampleNVDA, ExampleGRPH}

DiscoveryResponses ==
    { [kind |-> "error", text |-> "Connection error."],
      [kind |-> "content", content |-> None] } \cup
    { [kind |-> "content", content |-> Some(t)] : t \in DiscoveryTexts }

AnalysisResponses ==
    { [kind |-> "error", text |-> "Rate limit reached."],
      [kind |-> "content", content |-> None],
      [kind |-> "content", content |-> Some("")],
      [kind |-> "content", content |-> Some("Graphex is a buy.")] }

RequestPrices == {None, Some(0), Some(1000), Some(1250)}

RequestQuotes ==
    { q \in QuoteProviders :
        q.kind = "info" => /\ q.regularMarketPrice \in RequestPrices
                           /\ q.regularMarketPreviousClose \in RequestPrices }

Init ==
    /\ pc = "discover"
    /\ trace = <<>>
    /\ ai_discovery = None
    /\ stock_symbol = None
    /\ price_data = None
    /\ stock_data = None
    /\ analysis_prompt = None
    /\ ai_recommendation = None
    /\ response = None
    /\ log = <<>>
    /\ call = [fn |-> "stock"]
    /\ outcome = [kind |-> "pending"]

\* Step 1: ai_discovery = get_ai_stock_discovery()
Discover ==
    /\ pc = "discover"
    /\ \E llm \in DiscoveryResponses :
        LET o == get_ai_stock_discovery(llm)
            calls == Append(trace, Called("get_ai_stock_discovery", <<>>, o))
            msgs == log \o <<"Discovering promising stocks...">> \o o.log
        IN IF o.kind = "raise"
           THEN Except(o.exc, calls, msgs) /\ UNCHANGED ai_discovery
           ELSE IF o.value = None
           THEN Except(Abort("Failed to discover stocks"), calls, msgs)
                /\ UNCHANGED ai_discovery
           ELSE /\ ai_discovery' = o.value
                /\ pc' = "extract"
                /\ trace' = calls
                /\ log' = msgs
                /\ UNCHANGED response
    /\ UNCHANGED <<stock_symbol, price_data, stock_data, analysis_prompt,
                   ai_recommendation, call_vars>>

\* Step 2: stock_symbol = extract_stock_symbol(ai_discovery)
Extract ==
    /\ pc = "extract"
    /\ LET o == Return(extract_stock_symbol(ai_discovery[1]), <<>>)
           calls == Append(trace, Called("extract_stock_symbol", <<ai_discovery[1]>>, o))
       IN IF o.value = None
          THEN Except(Abort("Failed to discover any stocks"), calls, log)
               /\ UNCHANGED stock_symbol
          ELSE /\ stock_symbol' = o.value
               /\ pc' = "price"
               /\ trace' = calls
               /\ log' = log \o <<"Discovered stock: " \o Str(o.value[1])>>
               /\ UNCHANGED response
    /\ UNCHANGED <<ai_discovery, price_data, stock_data, analysis_prompt,
                   ai_recommendation, call_vars>>

\* Step 3, analyze_single_stock: price_data = get_stock_price_data(stock_symbol)
FetchPrice ==
    /\ pc = "price"
    /\ \E q \in RequestQuotes :
        LET o == get_stock_price_data(q)
        IN /\ price_data' = Some(o.value)
           /\ trace' = Append(trace, Called("get_stock_price_data", <<stock_symbol[1]>>, o))
           /\ log' = log \o o.log
    /\ pc' = "news"
    /\ UNCHANGED <<ai_discovery, stock_symbol, stock_data, analysis_prompt,
                   ai_recommendation, response, call_vars>>

\* FetchNews fetching the news again after a failed fetch
FetchNewsRetry ==
    /\ pc = "news"
    /\ \E r \in NewsResponses :
        LET o == get_news_headlines(r, DefaultMaxArticles)
            calls == Append(trace, Called("get_news_headlines", <<stock_symbol[1]>>, o))
        IN IF o.kind = "raise"
           THEN IF \E i \in 1..Len(trace) : trace[i].fn = "get_news_headlines"
                THEN Except(Abort("Failed to analyze the discovered stock"), calls,
                            log \o o.log)
                     /\ UNCHANGED stock_data
                ELSE /\ trace' = calls
                     /\ UNCHANGED <<pc, log, response, stock_data>>
           ELSE /\ stock_data' = Some(Snapshot(stock_symbol[1], price_data[1], o.value))
                /\ pc' = "analysis"
                /\ trace' = calls
                /\ log' = log \o o.log
                /\ UNCHANGED response
    /\ UNCHANGED <<ai_discovery, stock_symbol, price_data, analysis_prompt,
                   ai_recommendation, call_vars>>

\* Step 3, analyze_single_stock: news_headlines = get_news_headlines(stock_symbol),
\* the dictionary it returns (None when building it threw), and the check of it
FetchNews ==
    /\ pc = "news"
    /\ \E r \in NewsResponses :
        LET o == get_news_headlines(r, DefaultMaxArticles)
            calls == Append(trace, Called("get_news_headlines", <<stock_symbol[1]>>, o))
        IN IF o.kind = "raise"
           THEN Except(Abort("Failed to analyze the discovered stock"), calls,
                       log \o o.log \o <<"Failed to analyze stock " \o Str(stock_symbol[1])>>)
                /\ UNCHANGED stock_data
           ELSE /\ stock_data' = Some(Snapshot(stock_symbol[1], price_data[1], o.value))
                /\ pc' = "analysis"
                /\ trace' = calls
                /\ log' = log \o o.log
                /\ UNCHANGED response
    /\ UNCHANGED <<ai_discovery, stock_symbol, price_data, analysis_prompt,
                   ai_recommendation, call_vars>>

\* Steps 4 and 5 and the rendering: analysis_prompt = build_analysis_prompt(stock_data),
\* ai_recommendation = get_ai_recommendation(analysis_prompt), full_analysis
Analyze ==
    /\ pc = "analysis"
    /\ analysis_prompt' = Some(build_analysis_prompt(stock_data[1]))
    /\ \E llm \in AnalysisResponses :
        LET o == get_ai_recommendation(analysis_prompt'[1], llm)
            calls == Append(trace, Called("get_ai_recommendation", <<analysis_prompt'[1]>>, o))
        IN IF o.kind = "raise"
           THEN Except(o.exc, calls, log \o o.log) /\ UNCHANGED ai_recommendation
           ELSE IF o.value = None
           THEN Except(Abort("Failed to get AI recommendation"), calls, log)
                /\ UNCHANGED ai_recommendation
           ELSE /\ ai_recommendation' = o.value
                /\ response' = Some(Page(FullAnalysis(ai_discovery[1], o.value[1])))
                /\ pc' = "done"
                /\ trace' = calls
                /\ UNCHANGED log
    /\ UNCHANGED <<ai_discovery, stock_symbol, price_data, stock_data, call_vars>>

Next ==
    \/ Discover
    \/ Extract
    \/ FetchPrice
    \/ FetchNews
    \/ Analyze

Spec == Init /\ [][Next]_vars

----------------------------------------------------------------------------
(* Properties of the functions, under SpecCall                             *)

Returned(fn) == call.fn = fn /\ outcome.kind = "return"

\* C1: get_stock_price_data and get_news_headlines end by returning, for
\* every outcome of their provider; neither ends by raising.
C1_ClientsNeverRaise ==
    (call.fn \in {"get_stock_price_data", "get_news_headlines"} /\ outcome # Pending)
        => outcome.kind = "return"

\* The word-bounded runs of 1 to 5 upper-case letters of text, as
\* <<start, length>>
Runs(text) ==
    { ik \in (1..Len(text)) \X (MinRepeat..MaxRepeat) :
        LET i == ik[1]
            k == ik[2]
        IN /\ i + k - 1 <= Len(text)
           /\ \A j \in i..(i + k - 1) : text[j] \in UpperCase
           /\ (i = 1 \/ text[i - 1] \notin WordChars)
           /\ (i + k - 1 = Len(text) \/ text[i + k] \notin WordChars) }

RunText(text, ik) == SubSeq(text, ik[1], ik[1] + ik[2] - 1)

Survivors(text) ==
    { ik \in Runs(text) : ik[2] >= 2 /\ RunText(text, ik) \notin common_words }

\* C7: extract_stock_symbol never returns a stoplisted word or a match
\* shorter than 2 characters; what it returns is a word-bounded run of 2 to
\* 5 upper-case letters that occurs in the text.
C7_NeverStoplistedOrShort ==
    (Returned("extract_stock_symbol") /\ outcome.value # None)
        => LET symbol == outcome.value[1]
           IN /\ symbol \notin common_words
              /\ Len(symbol) >= 2
              /\ Len(symbol) <= 5
              /\ \E ik \in Runs(call.text) : RunText(call.text, ik) = symbol

\* A symbol was returned from a text that also holds a stoplisted word and a
\* single letter
C7_Witness ==
    /\ Returned("extract_stock_symbol")
    /\ outcome.value # None
    /\ \E ik \in Runs(call.text) : RunText(call.text, ik) \in common_words
    /\ \E ik \in Runs(call.text) : ik[2] = 1

\* C8: extract_stock_symbol returns the leftmost of the runs that survive
\* the stoplist and the length filter, and nothing exactly when none
\* survives; "Our top pick is NVDA, a strong buy" gives NVDA.
C8_FirstSurvivingMatch ==
    Returned("extract_stock_symbol")
        => LET live == Survivors(call.text)
           IN /\ (outcome.value = None) <=> (live = {})
              /\ live # {} =>
                    \E ik \in live :
                        /\ \A other \in live : ik[1] <= other[1]
                        /\ outcome.value = Some(RunText(call.text, ik))
              /\ call.text = ExampleNVDA => outcome.value = Some(<<"N", "V", "D", "A">>)

\* Two different surviving matches after a stoplisted word: the first of
\* the two was returned
C8_Witness ==
    /\ Returned("extract_stock_symbol")
    /\ \E a, b \in Survivors(call.text) :
          /\ a[1] < b[1]
          /\ RunText(call.text, a) # RunText(call.text, b)
          /\ outcome.value = Some(RunText(call.text, a))
          /\ \E w \in Runs(call.text) :
                w[1] < a[1] /\ RunText(call.text, w) \in common_words

\* C9: change_percentage is None exactly when the price is missing, the
\* previous close is missing or the previous close is 0; otherwise, a price
\* of 0 included, it is (current - previous) / previous * 100 to 2 decimals.
C9_ChangeNullExactlyWhenMissing ==
    (Returned("get_stock_price_data") /\ call.provider.kind = "info")
        => LET current == call.provider.regularMarketPrice
               previous == call.provider.regularMarketPreviousClose
               change == outcome.value.change_percentage
           IN /\ (change = None)
                    <=> (current = None \/ previous = None \/ previous = Some(0))
              /\ change # None =>
                    LET exact == (current[1] - previous[1]) * 10000
                        off == change[1] * previous[1] - exact
                    IN 2 * (IF off < 0 THEN 0 - off ELSE off) <= previous[1]

\* C10: the prompt shows the price as N/A exactly when it is None (and as
\* $<price> otherwise, 0 included), the change as N/A exactly when it is
\* None, the headlines joined by "; " or "No recent news" exactly when
\* there is none, and always "Stock: <symbol>".
C10_PromptRendering ==
    Returned("build_analysis_prompt")
        => LET d == call.stock_data
               lines == { outcome.value[i] : i \in 1..Len(outcome.value) }
           IN /\ ("Stock: " \o Str(d.symbol)) \in lines
              /\ ("Current Price: N/A" \in lines) <=> (d.price = None)
              /\ d.price # None =>
                    ("Current Price: $" \o FormatFloat(d.price[1])) \in lines
              /\ ("Daily Change: N/A" \in lines) <=> (d.change_percentage = None)
              /\ d.change_percentage # None =>
                    ("Daily Change: " \o FormatFloat(d.change_percentage[1]) \o "%") \in lines
              /\ ("Recent News: No recent news" \in lines) <=> (d.news = <<>>)
              /\ d.news # <<>> => ("Recent News: " \o Join("; ", d.news)) \in lines

----------------------------------------------------------------------------
(* Properties of the /stock request, under Spec                            *)

Done == pc = "done"

IsPage == response # None /\ response[1].status = 200

IsError == response # None /\ response[1].status = 500

CallsOf(fn) == { i \in 1..Len(trace) : trace[i].fn = fn }

\* A language-model call that raised, or returned None or ""
NoText(result, empty) ==
    result.kind = "raise" \/ result.value = None \/ result.value = Some(empty)

\* The stages the log names
ReportedStages ==
    LET logged == { log[i] : i \in 1..Len(log) }
        has(m) == m \in logged
    IN { st \in {"discovery", "extraction", "analysis-data", "analysis"} :
           \/ st = "discovery" /\
                \/ has("Failed to get AI stock discovery: Connection error.")
                \/ has("Error generating stock recommendation: 500 Internal Server Error: Failed to discover stocks")
           \/ st = "extraction" /\
                has("Error generating stock recommendation: 500 Internal Server Error: Failed to discover any stocks")
           \/ st = "analysis-data" /\
                has("Error generating stock recommendation: 500 Internal Server Error: Failed to analyze the discovered stock")
           \/ st = "analysis" /\
                \/ has("Failed to get AI recommendation: Rate limit reached.")
                \/ has("Error generating stock recommendation: 500 Internal Server Error: Failed to get AI recommendation") }

\* C2: when the analysis call raises or returns None or "", the request
\* ends in an error; no recommendation is composed with an empty analysis.
C2_EmptyAnalysisFails ==
    Done => \A i \in CallsOf("get_ai_recommendation") :
               NoText(trace[i].result, "") => (IsError /\ ~IsPage)

\* C3: a discovery call that raises or returns None or "" is reported as a
\* failure of the discovery stage and no extraction is run on it; a
\* non-empty discovery text without a symbol is reported as a failure of
\* the extraction stage.
C3_StageTagging ==
    Done =>
        /\ \A i \in CallsOf("get_ai_stock_discovery") :
              NoText(trace[i].result, <<>>)
                  => /\ ReportedStages = {"discovery"}
                     /\ CallsOf("extract_stock_symbol") = {}
        /\ \A i \in CallsOf("extract_stock_symbol") :
              (trace[i].args[1] # <<>> /\ trace[i].result.value = None)
                  => ReportedStages = {"extraction"}

\* A stage of the request failed: discovery or analysis without text, no
\* symbol extracted, or the snapshot not built
StageFailed ==
    \/ \E i \in CallsOf("get_ai_stock_discovery") : NoText(trace[i].result, <<>>)
    \/ \E i \in CallsOf("extract_stock_symbol") : trace[i].result.value = None
    \/ \E i \in CallsOf("get_news_headlines") : trace[i].result.kind = "raise"
    \/ \E i \in CallsOf("get_ai_recommendation") : NoText(trace[i].result, "")

\* C4: a request ends either in the full recommendation, holding the
\* discovery text and the analysis text under their headers, or in an
\* error; when a stage failed no page is rendered.
C4_AllOrNothing ==
    Done =>
        /\ IsPage # IsError
        /\ StageFailed => (IsError /\ ~IsPage)
        /\ IsPage =>
              /\ ai_discovery # None /\ ai_recommendation # None
              /\ ai_discovery[1] # <<>> /\ ai_recommendation[1] # ""
              /\ response[1].ai_pick =
                    <<"AI Stock Discovery:", Str(ai_discovery[1]), "",
                      "Detailed Analysis:", ai_recommendation[1]>>

CallOrder ==
    <<"get_ai_stock_discovery", "extract_stock_symbol", "get_stock_price_data",
      "get_news_headlines", "get_ai_recommendation">>

\* C5: the calls of a request are made in the order discovery, extraction,
\* market data, news, analysis, each at most once; market data and news
\* are fetched only for the symbol that was extracted, and the analysis
\* call is made only after the snapshot was built.
C5_CallOrder ==
    /\ Len(trace) <= Len(CallOrder)
    /\ \A i \in 1..Len(trace) : trace[i].fn = CallOrder[i]
    /\ \A i \in 1..Len(trace) :
          /\ i < Len(trace) => trace[i].result.kind = "return"
          /\ trace[i].fn = "extract_stock_symbol"
                => trace[i].args = <<trace[1].result.value[1]>>
          /\ trace[i].fn \in {"get_stock_price_data", "get_news_headlines"}
                => /\ trace[2].result.value # None
                   /\ trace[i].args = <<trace[2].result.value[1]>>
          /\ trace[i].fn = "get_ai_recommendation"
                => /\ stock_data # None
                   /\ stock_data[1].symbol = trace[2].result.value[1]
                   /\ stock_data[1].news = trace[4].result.value
                   /\ trace[i].args = <<build_analysis_prompt(stock_data[1])>>

\* A request that made all five calls and rendered the page
C5_Witness == Done /\ Len(trace) = 5 /\ IsPage

====
